---- MODULE Spec2Model ----
(***************************************************************************)
(* Model of factbook_exporter: the two coverage analysers (scripts/        *)
(* analyze_coverage.py, scripts/analyze_coverage_simple.py) and the export *)
(* path (main.py, parser.py, src/utils/cleaner.py).                        *)
(*                                                                         *)
(* Text is a sequence of tokens.  A token is a single character, a markup  *)
(* tag, or a word spelled as one token (Spell gives its characters); the   *)
(* characters the code looks at, "." (path separator), "_" (metadata       *)
(* prefix) and " " (whitespace), are always tokens of their own.  A JSON   *)
(* value is a record with the same five fields for every type, so that any *)
(* two values can be compared.                                             *)
(***************************************************************************)
EXTENDS Integers, Sequences, FiniteSets, TLC

\* ------------------------------------------------------------------ bounds
MaxListLen == 2
MaxCountries == 3
MaxMappings == 2
MaxParse == 2
MaxTotal == 119
MaxRequested == 3

\* ------------------------------------------------------------ JSON values
Null == [t |-> "null", s |-> <<>>, n |-> 0, l |-> <<>>, d |-> <<>>]
Str(text) == [t |-> "str", s |-> text, n |-> 0, l |-> <<>>, d |-> <<>>]
Num(k) == [t |-> "num", s |-> <<>>, n |-> k, l |-> <<>>, d |-> <<>>]
Bool(b) == [t |-> "bool", s |-> <<>>, n |-> IF b THEN 1 ELSE 0, l |-> <<>>, d |-> <<>>]
List(items) == [t |-> "list", s |-> <<>>, n |-> 0, l |-> items, d |-> <<>>]
Dict(entries) == [t |-> "dict", s |-> <<>>, n |-> 0, l |-> <<>>, d |-> entries]
Ent(key, value) == [k |-> key, v |-> value]

\* ----------------------------------------------------------- text helpers
IsSpace(tok) == tok = " "

RECURSIVE LStrip(_)
LStrip(text) ==
    IF text # <<>> /\ IsSpace(Head(text)) THEN LStrip(Tail(text)) ELSE text

RECURSIVE RStrip(_)
RStrip(text) ==
    IF text # <<>> /\ IsSpace(text[Len(text)])
    THEN RStrip(SubSeq(text, 1, Len(text) - 1))
    ELSE text

\* str.strip()
Strip(text) == RStrip(LStrip(text))

\* a plausible slip: the key compared with '_' instead of its first character
StartsWithUnderscore_Whole(key) == key = <<"_">>

\* str.startswith('_')
StartsWithUnderscore(key) == key # <<>> /\ Head(key) = "_"

\* str.split('.')
RECURSIVE SplitDots(_, _)
SplitDots(text, seg) ==
    IF text = <<>> THEN <<seg>>
    ELSE IF Head(text) = "." THEN <<seg>> \o SplitDots(Tail(text), <<>>)
    ELSE SplitDots(Tail(text), Append(seg, Head(text)))

RECURSIVE JoinWith(_, _)
JoinWith(parts, sep) ==
    IF parts = <<>> THEN <<>>
    ELSE IF Len(parts) = 1 THEN parts[1]
    ELSE parts[1] \o sep \o JoinWith(Tail(parts), sep)

\* repr()/str() of a JSON value as Python prints it
RECURSIVE PyRepr(_)
RECURSIVE PyReprItems(_)
RECURSIVE PyReprEntries(_)
PyRepr(value) ==
    CASE value.t = "null" -> <<"None">>
      [] value.t = "str" -> <<"'">> \o value.s \o <<"'">>
      [] value.t = "num" -> <<ToString(value.n)>>
      [] value.t = "bool" -> IF value.n = 1 THEN <<"True">> ELSE <<"False">>
      [] value.t = "list" -> <<"[">> \o JoinWith(PyReprItems(value.l), <<",", " ">>) \o <<"]">>
      [] value.t = "dict" -> <<"{">> \o JoinWith(PyReprEntries(value.d), <<",", " ">>) \o <<"}">>
PyReprItems(items) ==
    IF items = <<>> THEN <<>>
    ELSE <<PyRepr(Head(items))>> \o PyReprItems(Tail(items))
PyReprEntries(entries) ==
    IF entries = <<>> THEN <<>>
    ELSE <<(<<"'">> \o Head(entries).k \o <<"'", ":", " ">> \o PyRepr(Head(entries).v))>>
         \o PyReprEntries(Tail(entries))

PyStr(value) == IF value.t = "str" THEN value.s ELSE PyRepr(value)

\* ------------------------------------------------------- path extractors
\* current_path = f"{prefix}.{key}" if prefix else key
CurrentPath(prefix, key) == IF prefix # <<>> THEN prefix \o <<".">> \o key ELSE key

\* analyze_coverage_simple.py: _has_meaningful_value
has_meaningful_value(value) ==
    IF value.t = "null" THEN FALSE
    ELSE IF value.t = "str" THEN Strip(value.s) # <<>>
    ELSE IF value.t = "list" THEN Len(value.l) > 0
    ELSE TRUE

\* analyze_coverage.py: the leaf test `value is not None and str(value).strip()`
DetailedLeafOk(value) == value.t # "null" /\ Strip(PyStr(value)) # <<>>

\* analyze_coverage.py: the list test `value and str(value).strip()`
DetailedListOk(value) == Len(value.l) > 0 /\ Strip(PyStr(value)) # <<>>

\* first_item = value[0]
FirstItemDetailed(value) == value.l[1]

RECURSIVE extract_field_paths(_, _)
RECURSIVE ExtractFieldEntries(_, _, _)
extract_field_paths(data, prefix) ==
    IF data.t # "dict" THEN <<>> ELSE ExtractFieldEntries(data.d, prefix, 1)
ExtractFieldEntries(entries, prefix, i) ==
    IF i > Len(entries) THEN <<>>
    ELSE LET key == entries[i].k
             value == entries[i].v
             current_path == CurrentPath(prefix, key)
             found ==
                 IF StartsWithUnderscore(key) THEN <<>>
                 ELSE IF value.t = "dict" THEN extract_field_paths(value, current_path)
                 ELSE IF value.t = "list" /\ value.l # <<>> THEN
                     IF FirstItemDetailed(value).t = "dict"
                     THEN extract_field_paths(FirstItemDetailed(value), current_path)
                     ELSE IF DetailedListOk(value) THEN <<current_path>> ELSE <<>>
                 ELSE IF DetailedLeafOk(value) THEN <<current_path>> ELSE <<>>
         IN found \o ExtractFieldEntries(entries, prefix, i + 1)

\* a plausible slip: the last element taken as the representative one
FirstItemSimple_Last(value) == value.l[Len(value.l)]

\* first_item = value[0]
FirstItemSimple(value) == value.l[1]

RECURSIVE extract_leaf_field_paths(_, _)
RECURSIVE ExtractLeafEntries(_, _, _)
extract_leaf_field_paths(data, prefix) ==
    IF data.t # "dict" THEN <<>> ELSE ExtractLeafEntries(data.d, prefix, 1)
ExtractLeafEntries(entries, prefix, i) ==
    IF i > Len(entries) THEN <<>>
    ELSE LET key == entries[i].k
             value == entries[i].v
             current_path == CurrentPath(prefix, key)
             found ==
                 IF StartsWithUnderscore(key) THEN <<>>
                 ELSE IF value.t = "dict" THEN extract_leaf_field_paths(value, current_path)
                 ELSE IF value.t = "list" /\ value.l # <<>> THEN
                     IF FirstItemSimple(value).t = "dict"
                     THEN extract_leaf_field_paths(FirstItemSimple(value), current_path)
                     ELSE IF has_meaningful_value(value) THEN <<current_path>> ELSE <<>>
                 ELSE IF has_meaningful_value(value) THEN <<current_path>> ELSE <<>>
         IN found \o ExtractLeafEntries(entries, prefix, i + 1)

\* ------------------------------------------------------------ small helpers
InSeq(x, seq) == \E i \in 1..Len(seq) : seq[i] = x
Range(seq) == {seq[i] : i \in 1..Len(seq)}
PermsOf(S) ==
    {p \in [1..Cardinality(S) -> S] : \A i, j \in 1..Cardinality(S) : i # j => p[i] # p[j]}
RECURSIVE CountIn(_, _)
CountIn(x, seq) ==
    IF seq = <<>> THEN 0
    ELSE (IF Head(seq) = x THEN 1 ELSE 0) + CountIn(x, Tail(seq))

\* ----------------------------------------------------- coverage arithmetic
\* A percentage is held in tenths of a percent (66.7 is 667).  round(x, 1) of
\* the percentage x = num/den, computed exactly with ties to the even tenth as
\* Python rounds an exactly representable tie; below 16 records no quotient
\* 100*k/N is a tie, and the float product k/N*100 is within 1e-13 of the
\* exact quotient, so the exact and the float result round alike.
Round1_Truncate(num, den) == (10 * num) \div den

Round1(num, den) ==
    LET q == (10 * num) \div den
        r == (10 * num) % den
    IN IF 2 * r < den THEN q
       ELSE IF 2 * r > den THEN q + 1
       ELSE IF q % 2 = 0 THEN q ELSE q + 1

\* classify_field_tier(coverage_pct) for coverage_pct = num/den percent
classify_field_tier(num, den) ==
    IF num >= 95 * den THEN "universal"
    ELSE IF num >= 70 * den THEN "common"
    ELSE "partial"

\* ------------------------------------------------ detailed aggregator
\* an entry of field_coverage; coverage_pct = -1 and tier = "unset" stand for
\* the keys calculate_coverage_stats has not yet added
NewEntry(field) ==
    [path |-> field, present |-> 0, missing |-> 0, missing_countries |-> <<>>,
     coverage_pct |-> -1, tier |-> "unset"]

Keys(fc) == {fc[i].path : i \in 1..Len(fc)}

\* the fields update_field_coverage initialises for this record
NewFields(fc, field_paths) == Range(field_paths) \ Keys(fc)

\* update_field_coverage; order is the order in which the iteration over the
\* set all_fields meets the fields that are not yet keys of field_coverage
update_field_coverage(fc, field_paths, country_code, order) ==
    LET all == fc \o [i \in 1..Len(order) |-> NewEntry(order[i])]
    IN [i \in 1..Len(all) |->
          IF InSeq(all[i].path, field_paths)
          THEN [all[i] EXCEPT !.present = @ + 1]
          ELSE [all[i] EXCEPT !.missing = @ + 1,
                              !.missing_countries = Append(@, country_code)]]

\* the body of the loop of calculate_coverage_stats, for one field
StatsOf(stats) ==
    LET total == stats.present + stats.missing
    IN [stats EXCEPT
          !.coverage_pct = IF total > 0 THEN Round1(100 * stats.present, total) ELSE 0,
          !.tier = IF total > 0 THEN classify_field_tier(100 * stats.present, total)
                   ELSE classify_field_tier(0, 1)]

calculate_coverage_stats(fc) == [i \in 1..Len(fc) |-> StatsOf(fc[i])]

\* sorted(..., key=coverage_pct, reverse=True): stable, descending
RECURSIVE InsertDesc(_, _)
InsertDesc(e, sorted) ==
    IF sorted = <<>> THEN <<e>>
    ELSE IF Head(sorted).coverage_pct >= e.coverage_pct
         THEN <<Head(sorted)>> \o InsertDesc(e, Tail(sorted))
         ELSE <<e>> \o sorted
RECURSIVE SortDesc(_)
SortDesc(seq) ==
    IF seq = <<>> THEN <<>>
    ELSE InsertDesc(seq[Len(seq)], SortDesc(SubSeq(seq, 1, Len(seq) - 1)))

\* ------------------------------------------------------------ field names
\* Field names are built character by character.  A path of the model spells
\* its words as single tokens; Chars gives the characters of a text.
Uppers == <<"A", "B", "C", "D", "E", "F", "G", "H", "I", "J", "K", "L", "M", "N", "O", "P", "Q", "R", "S", "T", "U", "V", "W", "X", "Y", "Z">>
Lowers == <<"a", "b", "c", "d", "e", "f", "g", "h", "i", "j", "k", "l", "m", "n", "o", "p", "q", "r", "s", "t", "u", "v", "w", "x", "y", "z">>
IsUpper(c) == \E i \in 1..26 : Uppers[i] = c
ToLower(c) == IF IsUpper(c) THEN Lowers[CHOOSE i \in 1..26 : Uppers[i] = c] ELSE c
ToUpper(c) ==
    IF \E i \in 1..26 : Lowers[i] = c THEN Uppers[CHOOSE i \in 1..26 : Lowers[i] = c] ELSE c

Spell(tok) ==
    CASE tok = "Geography" -> <<"G", "e", "o", "g", "r", "a", "p", "h", "y">>
      [] tok = "Area" -> <<"A", "r", "e", "a">>
      [] tok = "text" -> <<"t", "e", "x", "t">>
      [] tok = "People" -> <<"P", "e", "o", "p", "l", "e">>
      [] tok = "Population" -> <<"P", "o", "p", "u", "l", "a", "t", "i", "o", "n">>
      [] tok = "Location" -> <<"L", "o", "c", "a", "t", "i", "o", "n">>
      [] tok = "Note" -> <<"N", "o", "t", "e">>
      [] tok = "Economy" -> <<"E", "c", "o", "n", "o", "m", "y">>
      [] OTHER -> <<tok>>

RECURSIVE Chars(_)
Chars(text) == IF text = <<>> THEN <<>> ELSE Spell(Head(text)) \o Chars(Tail(text))

\* str.lower()
LowerText(chars) == [i \in 1..Len(chars) |-> ToLower(chars[i])]

\* str.find(needle): the first index at which needle occurs, 0 if none
FindFirst(hay, needle) ==
    LET hits == {i \in 1..(Len(hay) - Len(needle) + 1) :
                    SubSeq(hay, i, i + Len(needle) - 1) = needle}
    IN IF hits = {} THEN 0 ELSE CHOOSE i \in hits : \A j \in hits : i <= j

\* str.replace(needle, full, 1)
ReplaceFirst(hay, needle, full) ==
    LET i == FindFirst(hay, needle)
    IN IF i = 0 THEN hay
       ELSE SubSeq(hay, 1, i - 1) \o full \o SubSeq(hay, i + Len(needle), Len(hay))

\* the table of _make_readable, in the order of the dict
abbreviations ==
    <<[abbr |-> <<"g", "d", "p">>, full |-> <<"G", "D", "P">>],
      [abbr |-> <<"g", "i", "n", "i">>, full |-> <<"G", "i", "n", "i">>],
      [abbr |-> <<"h", "i", "v">>, full |-> <<"H", "I", "V">>],
      [abbr |-> <<"a", "i", "d", "s">>, full |-> <<"A", "I", "D", "S">>],
      [abbr |-> <<"c", "o", "2">>, full |-> <<"C", "O", "2">>],
      [abbr |-> <<"p", "m", "2", "5">>, full |-> <<"P", "M", "2", ".", "5">>],
      [abbr |-> <<"u", "s">>, full |-> <<"U", "S">>],
      [abbr |-> <<"u", "k">>, full |-> <<"U", "K">>],
      [abbr |-> <<"e", "u">>, full |-> <<"E", "U">>],
      [abbr |-> <<"u", "n">>, full |-> <<"U", "N">>],
      [abbr |-> <<"n", "a", "t", "o">>, full |-> <<"N", "A", "T", "O">>],
      [abbr |-> <<"w", "t", "o">>, full |-> <<"W", "T", "O">>],
      [abbr |-> <<"i", "m", "f">>, full |-> <<"I", "M", "F">>],
      [abbr |-> <<"w", "o", "r", "l", "d", "b", "a", "n", "k">>, full |-> <<"W", "o", "r", "l", "d", " ", "B", "a", "n", "k">>]>>

\* for abbr, full in abbreviations.items(): if abbr in lower_name: ...
RECURSIVE ExpandAbbreviations(_, _, _)
ExpandAbbreviations(field_name, lower_name, i) ==
    IF i > Len(abbreviations) THEN field_name
    ELSE ExpandAbbreviations(
             IF FindFirst(lower_name, abbreviations[i].abbr) # 0
             THEN ReplaceFirst(field_name, abbreviations[i].abbr, abbreviations[i].full)
             ELSE field_name,
             lower_name, i + 1)

\* re.sub(r'(?<!^)(?=[A-Z])', ' ', field_name)
RECURSIVE SpaceBeforeCapitals(_, _)
SpaceBeforeCapitals(chars, i) ==
    IF i > Len(chars) THEN <<>>
    ELSE (IF i > 1 /\ IsUpper(chars[i]) THEN <<" ", chars[i]>> ELSE <<chars[i]>>)
         \o SpaceBeforeCapitals(chars, i + 1)

\* str.split(): the words between runs of whitespace
RECURSIVE Words(_, _)
Words(chars, word) ==
    IF chars = <<>> THEN (IF word = <<>> THEN <<>> ELSE <<word>>)
    ELSE IF IsSpace(Head(chars))
         THEN (IF word = <<>> THEN <<>> ELSE <<word>>) \o Words(Tail(chars), <<>>)
         ELSE Words(Tail(chars), Append(word, Head(chars)))

\* str.capitalize()
Capitalize(word) ==
    [i \in 1..Len(word) |-> IF i = 1 THEN ToUpper(word[i]) ELSE ToLower(word[i])]

\* SimpleCoverageAnalyzer._make_readable
make_readable(field_name) ==
    LET expanded == ExpandAbbreviations(field_name, LowerText(field_name), 1)
        readable == SpaceBeforeCapitals(expanded, 1)
        words == Words(readable, <<>>)
    IN JoinWith([i \in 1..Len(words) |-> Capitalize(words[i])], <<" ">>)

\* SimpleCoverageAnalyzer.generate_field_name
generate_field_name(json_path) ==
    LET chars == Chars(json_path)
        n == Len(chars)
        stripped == IF n >= 5 /\ SubSeq(chars, n - 4, n) = <<".", "t", "e", "x", "t">>
                    THEN SubSeq(chars, 1, n - 5)
                    ELSE chars
        segments == SplitDots(stripped, <<>>)
    IN make_readable(segments[Len(segments)])

\* ---------------------------------------------- simplified aggregator
\* the loop over field_paths of analyze_all_countries: one increment per
\* element of the list
RECURSIVE TrackPresence(_, _)
TrackPresence(fp, field_paths) ==
    IF field_paths = <<>> THEN fp
    ELSE LET field_path == Head(field_paths)
             fp0 == IF \E i \in 1..Len(fp) : fp[i].path = field_path
                    THEN fp
                    ELSE Append(fp, [path |-> field_path, count |-> 0])
             fp1 == [i \in 1..Len(fp0) |->
                       IF fp0[i].path = field_path
                       THEN [fp0[i] EXCEPT !.count = @ + 1]
                       ELSE fp0[i]]
         IN TrackPresence(fp1, Tail(field_paths))

\* the entries generate_simplified_report builds, before sorting
SimpleFieldsData(fp, processed) ==
    [i \in 1..Len(fp) |->
        [field_name |-> generate_field_name(fp[i].path),
         json_path |-> fp[i].path,
         coverage_pct |-> IF processed > 0 THEN Round1(100 * fp[i].count, processed) ELSE 0]]

\* ------------------------------------------------------ fetch outcomes
\* fetch_country_data returns (data, None) or (None, error), or raises
FetchData(rec) == [kind |-> "data", data |-> rec]
FetchError == [kind |-> "error", data |-> Null]
FetchRaises == [kind |-> "raise", data |-> Null]

\* `not json_data`: None or an empty mapping
Falsy(value) == value.t = "null" \/ (value.t = "dict" /\ value.d = <<>>)

\* CoverageAnalyzer.process_single_country
process_single_country_detailed(outcome) ==
    IF outcome.kind # "data" THEN [paths |-> <<>>, success |-> FALSE]
    ELSE IF Falsy(outcome.data) THEN [paths |-> <<>>, success |-> FALSE]
    ELSE [paths |-> extract_field_paths(outcome.data, <<>>), success |-> TRUE]

\* SimpleCoverageAnalyzer.process_single_country
process_single_country_simple(outcome) ==
    IF outcome.kind # "data" THEN [paths |-> <<>>, success |-> FALSE]
    ELSE IF Falsy(outcome.data) THEN [paths |-> <<>>, success |-> FALSE]
    ELSE [paths |-> extract_leaf_field_paths(outcome.data, <<>>), success |-> TRUE]

\* ------------------------------------------------------- field catalog
\* the characters of the model in code point order, for string comparison
AsciiOrder == <<" ", "(", ")", ".", "2", "5">> \o Uppers \o <<"_">> \o Lowers
CodePoint(c) == CHOOSE i \in 1..Len(AsciiOrder) : AsciiOrder[i] = c

\* a < b for two strings, as Python compares them
RECURSIVE StrLess(_, _)
StrLess(a, b) ==
    IF b = <<>> THEN FALSE
    ELSE IF a = <<>> THEN TRUE
    ELSE IF Head(a) = Head(b) THEN StrLess(Tail(a), Tail(b))
    ELSE CodePoint(Head(a)) < CodePoint(Head(b))

IsLetter(c) == IsUpper(c) \/ (\E i \in 1..26 : Lowers[i] = c)

\* str.title()
Title(chars) ==
    [i \in 1..Len(chars) |->
        IF i > 1 /\ IsLetter(chars[i - 1]) THEN ToLower(chars[i]) ELSE ToUpper(chars[i])]

\* str.replace('_', ' ').strip()
SpacedName(chars) == Strip([i \in 1..Len(chars) |-> IF chars[i] = "_" THEN " " ELSE chars[i]])

\* generate_complete_fields.py: extract_category_from_json_path
extract_category_from_json_path(json_path) == SplitDots(json_path, <<>>)[1]

\* generate_complete_fields.py: extract_parent_field_from_json_path
extract_parent_field_from_json_path(json_path) ==
    LET parts == SplitDots(json_path, <<>>)
        n == Len(parts)
    IN IF n >= 3
       THEN LET parent_field == SpacedName(parts[n - 1])
            IN IF LowerText(parent_field) \in {<<"t", "o", "t", "a", "l">>, <<"n", "o", "t", "e">>}
               THEN (IF n >= 4 THEN Title(SpacedName(parts[n - 2])) ELSE <<>>)
               ELSE Title(parent_field)
       ELSE <<>>

\* generate_complete_fields.py: improve_display_name
improve_display_name(field_name, json_path) ==
    LET parent_field == extract_parent_field_from_json_path(json_path)
        lower_parent == LowerText(parent_field)
    IN IF field_name \notin {<<"T", "o", "t", "a", "l">>, <<"N", "o", "t", "e">>} THEN field_name
       ELSE IF parent_field = <<>> THEN field_name
       ELSE IF field_name = <<"T", "o", "t", "a", "l">> THEN
           IF FindFirst(lower_parent, <<"p", "o", "p", "u", "l", "a", "t", "i", "o", "n">>) # 0
           THEN parent_field \o <<" ", "T", "o", "t", "a", "l">>
           ELSE IF FindFirst(lower_parent, <<"d", "e", "p", "e", "n", "d", "e", "n", "c", "y">>) # 0
           THEN field_name
           ELSE IF FindFirst(lower_parent, <<"f", "e", "r", "t", "i", "l", "i", "t", "y">>) # 0
           THEN field_name
           ELSE parent_field \o <<" ", "T", "o", "t", "a", "l">>
       ELSE parent_field \o <<" ", "N", "o", "t", "e">>

\* the entry generate_complete_fields keeps for a field of the report: the
\* keys json_path, display_name and category
CatalogEntry(field) ==
    [json_path |-> field.json_path,
     display_name |-> improve_display_name(field.field_name, Chars(field.json_path)),
     category |-> extract_category_from_json_path(Chars(field.json_path))]

\* sorted(fields_by_category.keys())
RECURSIVE SortedStrings(_)
SortedStrings(S) ==
    IF S = {} THEN <<>>
    ELSE LET least == CHOOSE a \in S : \A b \in S : ~StrLess(b, a)
         IN <<least>> \o SortedStrings(S \ {least})

\* sorted(..., key=lambda x: x['display_name']), a stable sort
RECURSIVE InsertByDisplayName(_, _)
InsertByDisplayName(sorted, e) ==
    IF sorted = <<>> THEN <<e>>
    ELSE IF StrLess(e.display_name, Head(sorted).display_name) THEN <<e>> \o sorted
    ELSE <<Head(sorted)>> \o InsertByDisplayName(Tail(sorted), e)
RECURSIVE SortByDisplayName(_)
SortByDisplayName(entries) ==
    IF entries = <<>> THEN <<>>
    ELSE InsertByDisplayName(SortByDisplayName(SubSeq(entries, 1, Len(entries) - 1)),
                             entries[Len(entries)])

RECURSIVE ExtendByCategory(_, _)
ExtendByCategory(entries, sorted_categories) ==
    IF sorted_categories = <<>> THEN <<>>
    ELSE SortByDisplayName(SelectSeq(entries, LAMBDA e : e.category = Head(sorted_categories)))
         \o ExtendByCategory(entries, Tail(sorted_categories))

\* generate_complete_fields: the 'fields' list written to
\* config/fields_complete.yaml from the 'fields' list of the simplified report
generate_complete_fields(report) ==
    LET entries == [i \in 1..Len(report) |-> CatalogEntry(report[i])]
    IN ExtendByCategory(entries, SortedStrings({entries[i].category : i \in 1..Len(entries)}))

\* the file config/fields_complete.yaml: absent, or holding a 'fields' list
NoFile == [exists |-> FALSE, fields |-> <<>>]
FileWith(fields) == [exists |-> TRUE, fields |-> fields]

\* ConfigLoader.load_all_fields
load_all_fields(file) == IF ~file.exists THEN <<>> ELSE file.fields

\* f.get('coverage_pct', 0), in tenths of a percent
GetCoveragePct(f) == IF "coverage_pct" \in DOMAIN f THEN f.coverage_pct ELSE 0

\* the marker of the dynamic profile entry
ALL_UNIVERSAL == <<"all_universal">>

\* ConfigLoader.get_profile_fields for a profile with this 'fields' list
get_profile_fields(fields, file) ==
    IF InSeq(ALL_UNIVERSAL, fields)
    THEN LET all_fields == load_all_fields(file)
             universal == SelectSeq(all_fields, LAMBDA f : GetCoveragePct(f) >= 950)
         IN [i \in 1..Len(universal) |-> universal[i].json_path]
    ELSE fields

\* a plausible slip: the test left out, every country counted
CountsAsProcessed_Always(res) == TRUE

\* analyze_all_countries: `if success and field_paths`
CountsAsProcessed(res) == res.success /\ res.paths # <<>>

\* ------------------------------------------------------------ the cleaner
\* markup tokens: tags, and a declaration html.parser rejects
Tags == {"<b>", "</b>", "<br>"}
RejectedMarkup == "<!["

\* the result of a call: a string, None, or an exception leaving the call
RStr(text) == [k |-> "str", s |-> text]
RNone == [k |-> "none", s |-> <<>>]
RRaise == [k |-> "raise", s |-> <<>>]

\* the text nodes of a markup string: the runs of tokens between tags
RECURSIVE TextNodes(_, _)
TextNodes(text, node) ==
    IF text = <<>> THEN <<node>>
    ELSE IF Head(text) \in Tags THEN <<node>> \o TextNodes(Tail(text), <<>>)
    ELSE TextNodes(Tail(text), Append(node, Head(text)))

RECURSIVE StrippedNonEmpty(_)
StrippedNonEmpty(nodes) ==
    IF nodes = <<>> THEN <<>>
    ELSE (IF Strip(Head(nodes)) = <<>> THEN <<>> ELSE <<Strip(Head(nodes))>>)
         \o StrippedNonEmpty(Tail(nodes))

\* soup.get_text(separator=' ', strip=True)
GetText(text) == JoinWith(StrippedNonEmpty(TextNodes(text, <<>>)), <<" ">>)

\* clean_text_html on a str; BeautifulSoup raises ParserRejectedMarkup when
\* html.parser gives up on the markup
clean_text_html(text) ==
    IF text = <<>> THEN RStr(<<>>)
    ELSE IF InSeq(RejectedMarkup, text) THEN RRaise
    ELSE RStr(GetText(text))

\* the first entry of a mapping with this key; <<>> if there is none
Lookup(entries, key) == SelectSeq(entries, LAMBDA e : e.k = key)
HasKey(value, key) == value.t = "dict" /\ Lookup(value.d, key) # <<>>
Get(value, key) == Lookup(value.d, key)[1].v

\* ', '.join(clean_items), an exception in any item leaving the call
JoinResults(results) ==
    IF \E i \in 1..Len(results) : results[i].k = "raise" THEN RRaise
    ELSE RStr(JoinWith([i \in 1..Len(results) |-> results[i].s], <<",", " ">>))

\* cleaner.clean_value
clean_value(value) ==
    IF value.t = "null" THEN RStr(<<>>)
    ELSE IF value.t = "str" THEN clean_text_html(value.s)
    ELSE IF value.t = "dict" THEN
        IF HasKey(value, <<"text">>)
        THEN (IF Get(value, <<"text">>).t = "str"
              THEN clean_text_html(Get(value, <<"text">>).s)
              ELSE RStr(<<>>))
        ELSE clean_text_html(PyStr(value))
    ELSE IF value.t = "list" THEN
        IF value.l # <<>>
        THEN JoinResults([i \in 1..Len(value.l) |-> clean_text_html(PyStr(value.l[i]))])
        ELSE RStr(<<>>)
    ELSE clean_text_html(PyStr(value))

\* ------------------------------------------------------------- the parser
\* DataParser.get_nested_value: the value, or Absent for None
RECURSIVE Navigate(_, _)
Navigate(current, keys) ==
    IF keys = <<>> THEN current
    ELSE IF HasKey(current, Head(keys)) THEN Navigate(Get(current, Head(keys)), Tail(keys))
    ELSE Null

get_nested_value(data, path) == Navigate(data, SplitDots(path, <<>>))

\* DataParser.extract_text_value; isinstance(value, (int, float)) holds for
\* a bool as well
extract_text_value(value) ==
    IF value.t = "null" THEN RNone
    ELSE IF value.t = "str" THEN clean_value(value)
    ELSE IF value.t \in {"num", "bool"} THEN RStr(PyStr(value))
    ELSE IF value.t = "dict" THEN
        IF HasKey(value, <<"text">>) THEN clean_value(Str(PyStr(Get(value, <<"text">>))))
        ELSE IF HasKey(value, <<"value">>) THEN clean_value(Str(PyStr(Get(value, <<"value">>))))
        ELSE clean_value(Str(PyStr(value)))
    ELSE IF value.l # <<>>
         THEN JoinResults([i \in 1..Len(value.l) |-> clean_value(Str(PyStr(value.l[i])))])
         ELSE RNone

\* result[column_name] = value on an insertion-ordered dict
DictSet(row, column, value) ==
    IF \E i \in 1..Len(row) : row[i].col = column
    THEN [i \in 1..Len(row) |-> IF row[i].col = column THEN [row[i] EXCEPT !.val = value] ELSE row[i]]
    ELSE Append(row, [col |-> column, val |-> value])

COL_CODE == <<"Country", " ", "Code">>
COL_NAME == <<"Country", " ", "Name">>

\* str.upper() on a country code
Upper(code) ==
    CASE code = "aa" -> "AA" [] code = "bb" -> "BB" [] code = "cc" -> "CC"
      [] code = "dd" -> "DD" [] code = "ee" -> "EE" [] code = "ff" -> "FF"
      [] OTHER -> code

\* config_loader.get_country_name: config/countries.yaml names some codes
get_country_name(gec_code) ==
    CASE gec_code = "aa" -> RStr(<<"Aruba">>)
      [] gec_code = "bb" -> RStr(<<"Barbados">>)
      [] OTHER -> RNone

\* the row parse_country_data starts from, and the fallback row of
\* parse_multiple_countries
BasicInfo(gec_code) ==
    LET name == get_country_name(gec_code)
        country_name == IF name.k = "none" \/ name.s = <<>> THEN RStr(<<Upper(gec_code)>>) ELSE name
    IN <<[col |-> COL_CODE, val |-> RStr(<<Upper(gec_code)>>)],
         [col |-> COL_NAME, val |-> country_name]>>

\* the loop of parse_country_data from mapping i on; raised is set when
\* extract_text_value lets an exception out
RECURSIVE ParseFields(_, _, _, _)
ParseFields(defs, json_data, row, i) ==
    IF i > Len(defs) THEN [raised |-> FALSE, row |-> row]
    ELSE LET raw_value == get_nested_value(json_data, defs[i].path)
             cleaned == extract_text_value(raw_value)
         IN IF cleaned.k = "raise" THEN [raised |-> TRUE, row |-> row]
            ELSE ParseFields(defs, json_data, DictSet(row, defs[i].col, cleaned), i + 1)

\* DataParser.parse_country_data
parse_country_data(defs, gec_code, json_data) ==
    ParseFields(defs, json_data, BasicInfo(gec_code), 1)

\* the body of the loop of parse_multiple_countries for a country with data
ParsedRow(defs, gec_code, json_data) ==
    LET parsed == parse_country_data(defs, gec_code, json_data)
    IN IF parsed.raised THEN BasicInfo(gec_code) ELSE parsed.row

\* main: the column name of a profile path
ColumnName(path) ==
    LET segs == SplitDots(path, <<>>)
        n == Len(segs)
    IN IF Len(path) >= 2 /\ path[Len(path) - 1] = "." /\ path[Len(path)] = "text"
       THEN segs[n - 1]
       ELSE segs[n]

\* main: {field['json_path']: field['column_name'] for field in fields_config}
RECURSIVE SectionDefinitions(_, _)
SectionDefinitions(paths, acc) ==
    IF paths = <<>> THEN acc
    ELSE LET path == Head(paths)
             set == IF \E i \in 1..Len(acc) : acc[i].path = path
                    THEN [i \in 1..Len(acc) |->
                            IF acc[i].path = path THEN [acc[i] EXCEPT !.col = ColumnName(path)] ELSE acc[i]]
                    ELSE Append(acc, [path |-> path, col |-> ColumnName(path)])
         IN SectionDefinitions(Tail(paths), set)

\* ---------------------------------------------------------------- state
VARIABLES
    ex_rec,        \* extractor run: the record handed to the extractors
    ex_detailed,   \* extractor run: result of extract_field_paths
    ex_simple,     \* extractor run: result of extract_leaf_field_paths
    ex_done,       \* extractor run: which extractors have returned
    st_present,    \* tier run: present tally of one field
    st_missing,    \* tier run: missing tally of one field
    st_stats,      \* tier run: the field's entry after calculate_coverage_stats
    feed,          \* analysis: what fetch_country_data gives for each country
    d_i,           \* detailed analyser: countries iterated
    field_coverage,         \* detailed analyser: self.field_coverage
    d_processed,   \* detailed analyser: self.processed_countries
    d_failed,      \* detailed analyser: self.failed_countries
    d_report,      \* detailed analyser: report["fields"], <<>> before the report
    d_pc,          \* detailed analyser: "analyze" or "done"
    s_i,           \* simplified analyser: countries iterated
    field_presence,         \* simplified analyser: self.field_presence
    s_processed,   \* simplified analyser: self.processed_countries
    s_failed,      \* simplified analyser: self.failed_countries
    s_report,      \* simplified analyser: report['fields']
    s_pc,          \* simplified analyser: "analyze" or "done"
    field_paths,   \* export: the paths get_profile_fields returned
    section_definitions,    \* export: parser.section_definitions
    country_data,  \* export: the mapping handed to parse_multiple_countries
    pa_i,          \* export: entries of country_data already parsed
    results,       \* export: results of parse_multiple_countries
    pa_pc,         \* export: "configure" or "parse"
    fields_complete,   \* catalog: the file config/fields_complete.yaml
    profile,       \* catalog: the 'fields' list of the profile asked for
    profile_fields,    \* catalog: what get_profile_fields returned
    cf_pc,         \* catalog: "report", "catalog" or "asked"
    fn_path,       \* field name run: the path handed to generate_field_name
    fn_name,       \* field name run: the name it returned
    fn_done,       \* field name run: generate_field_name has returned
    entry,         \* main run: the entry point, "main" or "fetch_multiple_countries"
    config_files,  \* main run: the state of the three files under config/
    profile_name,  \* main run: the --profile option
    country_list,  \* main run: the requested codes, or the gec_codes argument
    valid_codes,   \* main run: the codes validate_country_codes accepted
    invalid_codes, \* main run: the codes it rejected
    m_i,           \* main run: iterations of the fetch loop completed
    fetch_results, \* main run: code -> (data, error), in insertion order
    failed_countries,  \* main run: main's list of failed codes
    delays,        \* main run: calls of time.sleep made so far
    m_pc           \* main run: where main (or fetch_multiple_countries) stands

exVars == <<ex_rec, ex_detailed, ex_simple, ex_done>>
stVars == <<st_present, st_missing, st_stats>>
dVars == <<d_i, field_coverage, d_processed, d_failed, d_report, d_pc>>
sVars == <<s_i, field_presence, s_processed, s_failed, s_report, s_pc>>
cfVars == <<fields_complete, profile, profile_fields, cf_pc>>
anVars == <<feed, dVars, sVars, cfVars>>
paVars == <<field_paths, section_definitions, country_data, pa_i, results, pa_pc>>
fnVars == <<fn_path, fn_name, fn_done>>
mVars == <<entry, config_files, profile_name, country_list, valid_codes, invalid_codes,
           m_i, fetch_results, failed_countries, delays, m_pc>>
vars == <<exVars, stVars, anVars, paVars, fnVars, mVars>>

\* sequences over S of length 0..n
SeqsUpTo(S, n) == UNION {[1..m -> S] : m \in 0..n}

\* ------------------------------------------------- extractor run: inputs
K_k == <<"k">>
LeafValues ==
    {Null, Str(<<>>), Str(<<" ">>), Str(<<" ", " ">>), Str(<<"x">>), Str(<<" ", "x">>),
     Num(0), Num(7), Bool(FALSE), Bool(TRUE)}
InnerLeaves == {Null, Str(<<"x">>), Num(0), List(<<>>)}
InnerKeys == {<<"b">>, <<"c">>, <<"_", "m">>}
InnerDicts ==
    {Dict(<<>>)} \cup {Dict(<<Ent(k, v)>>) : k \in InnerKeys, v \in InnerLeaves}
ListItems == InnerDicts \cup {Null, Str(<<>>), Str(<<"a">>), Num(0)}
ListValues == {List(items) : items \in SeqsUpTo(ListItems, MaxListLen)}
TopKeys == {K_k, <<"_", "k">>}
\* a key that holds the separator
K_kb == <<"k", ".", "b">>
SecondKeys == {K_kb, <<"_", "k">>, <<"c">>}
SecondValues ==
    {Str(<<"x">>), Dict(<<Ent(<<"b">>, Str(<<"x">>))>>),
     List(<<Dict(<<Ent(<<"_", "m">>, Str(<<"x">>)), Ent(<<"b">>, Num(7))>>)>>)}
\* records of two keys: a nested mapping, then a key from SecondKeys
TwoKeyRecords ==
    {Dict(<<Ent(K_k, Dict(<<Ent(<<"b">>, v1)>>)), Ent(k2, v2)>>) :
        v1 \in {Null, Str(<<"x">>)}, k2 \in SecondKeys, v2 \in SecondValues}
ExtractRecords ==
    {Dict(<<Ent(k, v)>>) : k \in TopKeys \cup {K_kb}, v \in LeafValues \cup InnerDicts \cup ListValues}
        \cup TwoKeyRecords

ExIdle ==
    /\ ex_rec = Null
    /\ ex_detailed = <<>>
    /\ ex_simple = <<>>
    /\ ex_done = {}

StIdle ==
    /\ st_present = 0
    /\ st_missing = 0
    /\ st_stats = NewEntry(<<>>)

AnIdle ==
    /\ feed = <<>>
    /\ d_i = 0
    /\ field_coverage = <<>>
    /\ d_processed = 0
    /\ d_failed = <<>>
    /\ d_report = <<>>
    /\ d_pc = "analyze"
    /\ s_i = 0
    /\ field_presence = <<>>
    /\ s_processed = 0
    /\ s_failed = <<>>
    /\ s_report = <<>>
    /\ s_pc = "analyze"
    /\ fields_complete = NoFile
    /\ profile = <<>>
    /\ profile_fields = <<>>
    /\ cf_pc = "report"

\* config/fields.yaml as get_all_field_mappings gives it to DataParser()
ConfigFieldMappings ==
    <<[path |-> <<"Geography", ".", "Location">>, col |-> <<"Location">>]>>

PaIdle ==
    /\ field_paths = <<>>
    /\ section_definitions = ConfigFieldMappings
    /\ country_data = <<>>
    /\ pa_i = 0
    /\ results = <<>>
    /\ pa_pc = "configure"

FnIdle ==
    /\ fn_path = <<>>
    /\ fn_name = <<>>
    /\ fn_done = FALSE

\* no run of main under way: the configuration files are in place
MIdle ==
    /\ entry = "main"
    /\ config_files = [countries |-> "ok", fields |-> "ok", profiles |-> "ok"]
    /\ profile_name = "standard"
    /\ country_list = <<>>
    /\ valid_codes = <<>>
    /\ invalid_codes = <<>>
    /\ m_i = 0
    /\ fetch_results = <<>>
    /\ failed_countries = <<>>
    /\ delays = 0
    /\ m_pc = "start"

exOthers == <<stVars, anVars, paVars, fnVars, mVars>>
stOthers == <<exVars, anVars, paVars, fnVars, mVars>>
anOthers == <<exVars, stVars, paVars, fnVars, mVars>>
paOthers == <<exVars, stVars, anVars, fnVars, mVars>>
fnOthers == <<exVars, stVars, anVars, paVars, mVars>>
mOthers == <<exVars, stVars, anVars, fnVars>>

\* ------------------------------------------------------- extractor run
InitExtract ==
    /\ ex_rec \in ExtractRecords
    /\ ex_detailed = <<>>
    /\ ex_simple = <<>>
    /\ ex_done = {}
    /\ StIdle
    /\ AnIdle
    /\ PaIdle
    /\ FnIdle
    /\ MIdle

\* CoverageAnalyzer.extract_field_paths(json_data)
ExtractDetailed ==
    /\ "detailed" \notin ex_done
    /\ ex_rec.t = "dict"
    /\ ex_detailed' = extract_field_paths(ex_rec, <<>>)
    /\ ex_done' = ex_done \cup {"detailed"}
    /\ UNCHANGED <<ex_rec, ex_simple>>
    /\ UNCHANGED exOthers

\* SimpleCoverageAnalyzer.extract_leaf_field_paths(json_data)
ExtractSimple ==
    /\ "simple" \notin ex_done
    /\ ex_rec.t = "dict"
    /\ ex_simple' = extract_leaf_field_paths(ex_rec, <<>>)
    /\ ex_done' = ex_done \cup {"simple"}
    /\ UNCHANGED <<ex_rec, ex_detailed>>
    /\ UNCHANGED exOthers

NextExtract == ExtractDetailed \/ ExtractSimple

SpecExtract == InitExtract /\ [][NextExtract]_vars

\* ---------------------------------------------------------- tier run
\* one field of field_coverage with arbitrary tallies, as a run over
\* st_present + st_missing records leaves it
InitTier ==
    /\ st_present \in 0..MaxTotal
    /\ st_missing \in 0..MaxTotal
    /\ st_present + st_missing <= MaxTotal
    /\ st_stats = NewEntry(<<>>)
    /\ ExIdle
    /\ AnIdle
    /\ PaIdle
    /\ FnIdle
    /\ MIdle

\* calculate_coverage_stats on that field
CalculateStats ==
    /\ st_stats.tier = "unset"
    /\ st_stats' = StatsOf([NewEntry(<<"p">>) EXCEPT !.present = st_present,
                                                     !.missing = st_missing])
    /\ UNCHANGED <<st_present, st_missing>>
    /\ UNCHANGED stOthers

NextTier == CalculateStats

SpecTier == InitTier /\ [][NextTier]_vars

\* ------------------------------------------------------- analysis runs
P_GAT == <<"Geography", ".", "Area", ".", "text">>
P_Pop == <<"People", ".", "Population">>

RecGAT == Dict(<<Ent(<<"Geography">>, Dict(<<Ent(<<"Area">>, Dict(<<Ent(<<"text">>, Str(<<"x">>))>>))>>))>>)
RecPop ==
    Dict(<<Ent(<<"Geography">>, Dict(<<Ent(<<"Area">>, Dict(<<Ent(<<"text">>, Str(<<>>))>>))>>)),
           Ent(<<"People">>, Dict(<<Ent(<<"Population">>, Num(7))>>))>>)
RecBoth ==
    Dict(<<Ent(<<"Geography">>, Dict(<<Ent(<<"Area">>, Dict(<<Ent(<<"text">>, Str(<<"x">>))>>))>>)),
           Ent(<<"People">>, Dict(<<Ent(<<"Population">>, Num(0))>>))>>)
\* a key that holds the separator: the path Geography.Area.text is met twice
RecDup ==
    Dict(<<Ent(<<"Geography">>, Dict(<<Ent(<<"Area">>, Dict(<<Ent(<<"text">>, Str(<<"x">>))>>))>>)),
           Ent(<<"Geography", ".", "Area">>, Dict(<<Ent(<<"text">>, Str(<<"y">>))>>))>>)
RecNoPaths == Dict(<<Ent(<<"_", "meta">>, Dict(<<Ent(<<"x">>, Num(1))>>))>>)
RecEmpty == Dict(<<>>)

AnalysisRecords == {RecGAT, RecPop, RecBoth, RecDup, RecNoPaths, RecEmpty}
\* a response whose body is the JSON value null decodes to None
Outcomes == {FetchError, FetchRaises, FetchData(Null)} \cup {FetchData(r) : r \in AnalysisRecords}

\* the codes of config/countries.yaml, in file order
CountryCodes == <<"aa", "bb", "cc", "dd", "ee", "ff">>

InitAnalysis ==
    /\ feed \in SeqsUpTo(Outcomes, MaxCountries)
    /\ d_i = 0
    /\ field_coverage = <<>>
    /\ d_processed = 0
    /\ d_failed = <<>>
    /\ d_report = <<>>
    /\ d_pc = "analyze"
    /\ s_i = 0
    /\ field_presence = <<>>
    /\ s_processed = 0
    /\ s_failed = <<>>
    /\ s_report = <<>>
    /\ s_pc = "analyze"
    /\ fields_complete = NoFile
    /\ profile = <<>>
    /\ profile_fields = <<>>
    /\ cf_pc = "report"
    /\ ExIdle
    /\ StIdle
    /\ PaIdle
    /\ FnIdle
    /\ MIdle

\* a plausible slip: the failed country is not recorded
RecordFailure_Dropped(failed, country_code) == failed

\* self.failed_countries.append(country_code)
RecordFailure(failed, country_code) == Append(failed, country_code)

\* CoverageAnalyzer.analyze_all_countries: one iteration of the loop
DetailedAnalyze ==
    /\ d_pc = "analyze"
    /\ d_i < Len(feed)
    /\ LET country_code == CountryCodes[d_i + 1]
           res == process_single_country_detailed(feed[d_i + 1])
       IN IF CountsAsProcessed(res)
          THEN /\ \E order \in PermsOf(NewFields(field_coverage, res.paths)) :
                     field_coverage' =
                         update_field_coverage(field_coverage, res.paths, country_code, order)
               /\ d_processed' = d_processed + 1
               /\ UNCHANGED d_failed
          ELSE /\ d_failed' = RecordFailure(d_failed, country_code)
               /\ UNCHANGED <<field_coverage, d_processed>>
    /\ d_i' = d_i + 1
    /\ UNCHANGED <<d_report, d_pc, feed, sVars, cfVars>>
    /\ UNCHANGED anOthers

\* CoverageAnalyzer.generate_report, after the loop
DetailedReport ==
    /\ d_pc = "analyze"
    /\ d_i = Len(feed)
    /\ field_coverage' = calculate_coverage_stats(field_coverage)
    /\ d_report' = SortDesc(calculate_coverage_stats(field_coverage))
    /\ d_pc' = "done"
    /\ UNCHANGED <<d_i, d_processed, d_failed, feed, sVars, cfVars>>
    /\ UNCHANGED anOthers

\* SimpleCoverageAnalyzer.analyze_all_countries: one iteration of the loop
SimpleAnalyze ==
    /\ s_pc = "analyze"
    /\ s_i < Len(feed)
    /\ LET country_code == CountryCodes[s_i + 1]
           res == process_single_country_simple(feed[s_i + 1])
       IN IF CountsAsProcessed(res)
          THEN /\ field_presence' = TrackPresence(field_presence, res.paths)
               /\ s_processed' = s_processed + 1
               /\ UNCHANGED s_failed
          ELSE /\ s_failed' = RecordFailure(s_failed, country_code)
               /\ UNCHANGED <<field_presence, s_processed>>
    /\ s_i' = s_i + 1
    /\ UNCHANGED <<s_report, s_pc, feed, dVars, cfVars>>
    /\ UNCHANGED anOthers

\* SimpleCoverageAnalyzer.generate_simplified_report, after the loop
SimpleReport ==
    /\ s_pc = "analyze"
    /\ s_i = Len(feed)
    /\ s_report' = SortDesc(SimpleFieldsData(field_presence, s_processed))
    /\ s_pc' = "done"
    /\ UNCHANGED <<s_i, field_presence, s_processed, s_failed, feed, dVars, cfVars>>
    /\ UNCHANGED anOthers

\* the 'fields' lists of config/profiles.yaml: the dynamic profile and a
\* static one
Profiles == {<<ALL_UNIVERSAL>>, <<P_GAT, P_Pop>>}

\* scripts/generate_complete_fields.py, run on the saved simplified report
GenerateCompleteFields ==
    /\ s_pc = "done"
    /\ cf_pc = "report"
    /\ fields_complete' = FileWith(generate_complete_fields(s_report))
    /\ cf_pc' = "catalog"
    /\ UNCHANGED <<profile, profile_fields, feed, dVars, sVars>>
    /\ UNCHANGED anOthers

\* ConfigLoader.get_profile_fields(profile_name) with that catalog in place
GetProfileFields ==
    /\ cf_pc = "catalog"
    /\ \E fields \in Profiles :
          /\ profile' = fields
          /\ profile_fields' = get_profile_fields(fields, fields_complete)
    /\ cf_pc' = "asked"
    /\ UNCHANGED <<fields_complete, feed, dVars, sVars>>
    /\ UNCHANGED anOthers

Next ==
    \/ DetailedAnalyze
    \/ DetailedReport
    \/ SimpleAnalyze
    \/ SimpleReport
    \/ GenerateCompleteFields
    \/ GetProfileFields

Init == InitAnalysis

Spec == Init /\ [][Next]_vars

\* ----------------------------------------------------------- export run
P_PAT == <<"People", ".", "Area", ".", "text">>
P_Loc == <<"Geography", ".", "Location">>
P_Note == <<"Geography", ".", "Note">>
P_GA == <<"Geography", ".", "Area">>
P_GCN == <<"Government", ".", "Country", " ", "Name">>
ProfilePaths == {P_GAT, P_PAT, P_Loc, P_Note, P_GA, P_GCN}

RecFull ==
    Dict(<<Ent(<<"Geography">>,
               Dict(<<Ent(<<"Area">>, Dict(<<Ent(<<"text">>, Str(<<"<b>", "x", "</b>", " ", "y">>))>>)),
                      Ent(<<"Location">>, Str(<<"x">>)),
                      Ent(<<"Note">>, Str(<<"z">>))>>)),
           Ent(<<"People">>, Dict(<<Ent(<<"Area">>, Dict(<<Ent(<<"text">>, Num(7))>>))>>))>>)
RecSparse == Dict(<<Ent(<<"Geography">>, Dict(<<Ent(<<"Location">>, Str(<<"x">>))>>))>>)
\* a note whose markup the HTML parser rejects
RecRejected ==
    Dict(<<Ent(<<"Geography">>,
               Dict(<<Ent(<<"Area">>, Dict(<<Ent(<<"text">>, Str(<<"x">>))>>)),
                      Ent(<<"Location">>, Str(<<"x">>)),
                      Ent(<<"Note">>, Str(<<"<![", "z">>))>>)),
           Ent(<<"People">>, Dict(<<Ent(<<"Area">>, Dict(<<Ent(<<"text">>, Num(7))>>))>>))>>)
\* paths that end early: a string where a mapping is expected, a missing
\* section, a null and an empty list as terminal values
RecGaps ==
    Dict(<<Ent(<<"Geography">>,
               Dict(<<Ent(<<"Area">>, Str(<<"x">>)),
                      Ent(<<"Location">>, Null),
                      Ent(<<"Note">>, List(<<>>))>>))>>)
\* mappings and lists as terminal values, with nested values inside
RecNested ==
    Dict(<<Ent(<<"Geography">>,
               Dict(<<Ent(<<"Area">>, Dict(<<Ent(<<"text">>, Null)>>)),
                      Ent(<<"Location">>, Dict(<<Ent(<<"value">>, List(<<Str(<<"a">>), Str(<<"b">>)>>))>>)),
                      Ent(<<"Note">>, List(<<Dict(<<Ent(<<"text">>, Str(<<"x">>))>>),
                                             Str(<<"<b>", "y", "</b>">>)>>))>>)),
           Ent(<<"People">>, Dict(<<Ent(<<"Area">>, Dict(<<Ent(<<"note">>, Num(7))>>))>>))>>)
ParseRecords == {RecFull, RecSparse, RecRejected, RecGaps, RecNested}

InitParse ==
    /\ field_paths \in SeqsUpTo(ProfilePaths, MaxMappings)
    /\ section_definitions = ConfigFieldMappings
    /\ \E recs \in SeqsUpTo(ParseRecords, MaxParse) :
          country_data = [i \in 1..Len(recs) |-> [code |-> CountryCodes[i], data |-> recs[i]]]
    /\ pa_i = 0
    /\ results = <<>>
    /\ pa_pc = "configure"
    /\ ExIdle
    /\ StIdle
    /\ AnIdle
    /\ FnIdle
    /\ MIdle

\* main: the profile's paths become the parser's field mappings
ConfigureParser ==
    /\ pa_pc = "configure"
    /\ section_definitions' = SectionDefinitions(field_paths, <<>>)
    /\ pa_pc' = "parse"
    /\ UNCHANGED <<field_paths, country_data, pa_i, results>>
    /\ UNCHANGED paOthers

\* DataParser.parse_multiple_countries: one iteration of the loop
ParseCountry ==
    /\ pa_pc = "parse"
    /\ pa_i < Len(country_data)
    /\ LET gec_code == country_data[pa_i + 1].code
           json_data == country_data[pa_i + 1].data
       IN IF json_data.t # "null"
          THEN results' = Append(results, [code |-> gec_code,
                                           row |-> ParsedRow(section_definitions, gec_code, json_data)])
          ELSE UNCHANGED results
    /\ pa_i' = pa_i + 1
    /\ UNCHANGED <<field_paths, section_definitions, country_data, pa_pc>>
    /\ UNCHANGED paOthers

NextParse == ConfigureParser \/ ParseCountry

SpecParse == InitParse /\ [][NextParse]_vars

\* ------------------------------------------------------ field name run
\* final segments: a lead, a known abbreviation in some letter case or none,
\* and a rest, spelled character by character
NameLeads == {<<>>, <<"R", "e", "a", "l", " ">>, <<"r", "e", "a", "l">>}
NameAbbreviations ==
    {<<>>, <<"g", "d", "p">>, <<"G", "D", "P">>, <<"G", "d", "p">>, <<"g", "i", "n", "i">>,
     <<"G", "i", "n", "i">>, <<"h", "i", "v">>, <<"H", "I", "V">>, <<"u", "s">>, <<"C", "O", "2">>}
NameRests ==
    {<<>>, <<" ", "(", "p", "p", "p", ")">>, <<"G", "r", "o", "w", "t", "h">>,
     <<"_", "r", "a", "t", "e">>}
NameSections == {<<>>, <<"Economy", ".">>}
NameSuffixes == {<<>>, <<".", "text">>}
FieldPaths ==
    {sec \o lead \o abbr \o rest \o suffix :
        sec \in NameSections, lead \in NameLeads, abbr \in NameAbbreviations,
        rest \in NameRests, suffix \in NameSuffixes}

InitName ==
    /\ fn_path \in FieldPaths
    /\ fn_name = <<>>
    /\ fn_done = FALSE
    /\ ExIdle
    /\ StIdle
    /\ AnIdle
    /\ PaIdle
    /\ MIdle

\* generate_simplified_report: field_name = self.generate_field_name(field_path)
GenerateFieldName ==
    /\ ~fn_done
    /\ fn_name' = generate_field_name(fn_path)
    /\ fn_done' = TRUE
    /\ UNCHANGED fn_path
    /\ UNCHANGED fnOthers

NextName == GenerateFieldName

SpecName == InitName /\ [][NextName]_vars

\* ------------------------------------------------------------ the fetcher
\* config_loader.get_country_region: config/countries.yaml gives some codes
\* a region
get_country_region(gec_code) ==
    CASE gec_code = "aa" -> RStr(<<"europe">>)
      [] gec_code = "bb" -> RStr(<<"africa">>)
      [] OTHER -> RNone

\* what the request for a country's file comes to: session.get or
\* raise_for_status raises, response.json() raises, or the body decodes
NetworkError == [kind |-> "network", data |-> Null]
BadJson == [kind |-> "badjson", data |-> Null]
Body(value) == [kind |-> "body", data |-> value]
\* an exception that leaves fetch_country_data
Raised == [kind |-> "raise", data |-> Null]

\* a (data, error) tuple
Pair(data, error) == [data |-> data, error |-> error]

\* DataFetcher.fetch_country_data
fetch_country_data(gec_code, response) ==
    IF get_country_region(gec_code) = RNone
    THEN Pair(Null, RStr(<<"Invalid country code">>))
    ELSE CASE response.kind = "network" -> Pair(Null, RStr(<<"Network error">>))
           [] response.kind = "badjson" -> Pair(Null, RStr(<<"JSON parsing error">>))
           [] OTHER -> Pair(response.data, RNone)

\* a plausible slip: a delay after every request
DelayAfter_Every(i, n) == TRUE

\* `if i < len(valid_codes) - 1`, i counted from 0
DelayAfter(i, n) == i < n - 1

\* fetch_results[code] = (data, error) on an insertion-ordered dict
SetResult(fr, code, pair) ==
    IF \E k \in 1..Len(fr) : fr[k].code = code
    THEN [k \in 1..Len(fr) |->
            IF fr[k].code = code THEN [code |-> code, data |-> pair.data, error |-> pair.error]
            ELSE fr[k]]
    ELSE Append(fr, [code |-> code, data |-> pair.data, error |-> pair.error])

\* ---------------------------------------------------------- the validator
\* str.lower() on a country code
Lower(code) ==
    CASE code = "AA" -> "aa" [] code = "BB" -> "bb" [] code = "CC" -> "cc"
      [] OTHER -> code

\* validator.validate_country_codes, from code number i on
RECURSIVE validate_country_codes(_, _, _)
validate_country_codes(codes, valid, invalid) ==
    IF codes = <<>> THEN [valid |-> valid, invalid |-> invalid]
    ELSE IF Lower(Head(codes)) \in Range(CountryCodes)
         THEN validate_country_codes(Tail(codes), Append(valid, Lower(Head(codes))), invalid)
         ELSE validate_country_codes(Tail(codes), valid, Append(invalid, Head(codes)))

\* ------------------------------------------------------ the configuration
\* ConfigLoader._load_countries_config: raises unless the file is in order
load_countries_config(file) == IF file = "ok" THEN "loaded" ELSE "raised"

\* ConfigLoader._load_fields_config: a missing file is skipped with a warning
load_fields_config(file) == IF file = "malformed" THEN "raised" ELSE "loaded"

\* ConfigLoader._load_profiles_config: raises unless the file is in order
load_profiles_config(file) == IF file = "ok" THEN "loaded" ELSE "raised"

\* get_config_loader: the first call constructs ConfigLoader()
get_config_loader(files) ==
    IF load_countries_config(files.countries) = "raised" THEN "raised"
    ELSE IF load_fields_config(files.fields) = "raised" THEN "raised"
    ELSE IF load_profiles_config(files.profiles) = "raised" THEN "raised"
    ELSE "loaded"

\* config/field_profiles.yaml: the 'fields' list of each profile
ProfilesData == [standard |-> <<P_GAT, P_Loc>>]

\* ------------------------------------------------------------ main run
FileStates == {"ok", "missing", "malformed"}
RequestCodes == {"AA", "bb", "cc", "zz"}
Responses == {NetworkError, BadJson, Body(Null), Body(RecFull), Body(RecEmpty)}

InitExport ==
    /\ entry \in {"main", "fetch_multiple_countries"}
    /\ IF entry = "main"
       THEN /\ config_files \in [countries : FileStates, fields : FileStates, profiles : FileStates]
            /\ profile_name \in {"standard", "nosuch"}
            /\ country_list \in SeqsUpTo(RequestCodes, MaxRequested) \ {<<>>}
       ELSE /\ config_files = [countries |-> "ok", fields |-> "ok", profiles |-> "ok"]
            /\ profile_name = "standard"
            /\ country_list \in SeqsUpTo({"aa", "bb", "cc"}, MaxRequested)
    /\ valid_codes = <<>>
    /\ invalid_codes = <<>>
    /\ m_i = 0
    /\ fetch_results = <<>>
    /\ failed_countries = <<>>
    /\ delays = 0
    /\ m_pc = "start"
    /\ PaIdle
    /\ ExIdle
    /\ StIdle
    /\ AnIdle
    /\ FnIdle

\* main, lines 101-117: the codes are split, lowered and validated; the first
\* use of the configuration loads it, and an exception there ends the run
ValidateCodes ==
    /\ entry = "main"
    /\ m_pc = "start"
    /\ IF get_config_loader(config_files) = "raised"
       THEN /\ m_pc' = "aborted"
            /\ UNCHANGED <<valid_codes, invalid_codes>>
       ELSE LET checked == validate_country_codes(
                               [k \in 1..Len(country_list) |-> Lower(country_list[k])], <<>>, <<>>)
            IN /\ valid_codes' = checked.valid
               /\ invalid_codes' = checked.invalid
               /\ m_pc' = IF checked.invalid # <<>> /\ checked.valid = <<>>
                          THEN "exit" ELSE "profile"
    /\ UNCHANGED <<entry, config_files, profile_name, country_list, m_i, fetch_results,
                   failed_countries, delays>>
    /\ UNCHANGED paVars
    /\ UNCHANGED mOthers

\* main, lines 139-172: the profile's paths become the parser's mappings; an
\* unknown profile ends the run
LoadProfile ==
    /\ m_pc = "profile"
    /\ IF profile_name \in DOMAIN ProfilesData
       THEN /\ field_paths' = get_profile_fields(ProfilesData[profile_name], fields_complete)
            /\ section_definitions' =
                  SectionDefinitions(get_profile_fields(ProfilesData[profile_name], fields_complete), <<>>)
            /\ m_pc' = "fetch"
       ELSE /\ m_pc' = "exit"
            /\ UNCHANGED <<field_paths, section_definitions>>
    /\ UNCHANGED <<entry, config_files, profile_name, country_list, valid_codes, invalid_codes,
                   m_i, fetch_results, failed_countries, delays>>
    /\ UNCHANGED <<country_data, pa_i, results, pa_pc>>
    /\ UNCHANGED mOthers

\* main, lines 183-203: one iteration of the fetch loop
FetchCountry ==
    /\ m_pc = "fetch"
    /\ m_i < Len(valid_codes)
    /\ \E response \in Responses \cup {Raised} :
          LET code == valid_codes[m_i + 1]
              pair == IF response = Raised THEN Pair(Null, RStr(<<"exception">>))
                      ELSE fetch_country_data(code, response)
          IN /\ fetch_results' = SetResult(fetch_results, code, pair)
             /\ failed_countries' =
                   IF response = Raised \/ (pair.error # RNone /\ pair.error.s # <<>>)
                   THEN Append(failed_countries, code)
                   ELSE failed_countries
    /\ delays' = IF DelayAfter(m_i, Len(valid_codes)) THEN delays + 1 ELSE delays
    /\ m_i' = m_i + 1
    /\ UNCHANGED <<entry, config_files, profile_name, country_list, valid_codes, invalid_codes, m_pc>>
    /\ UNCHANGED paVars
    /\ UNCHANGED mOthers

\* sum(1 for data, error in fetch_results.values() if data is not None)
successful_fetches == Len(SelectSeq(fetch_results, LAMBDA r : r.data # Null))

\* main, lines 205-224: the fetches are counted; with none successful the
\* export is aborted, else the records with data go to parse_multiple_countries
CountFetches ==
    /\ m_pc = "fetch"
    /\ m_i = Len(valid_codes)
    /\ IF successful_fetches > 0
       THEN LET with_data == SelectSeq(fetch_results, LAMBDA r : r.data # Null)
            IN /\ country_data' =
                     [k \in 1..Len(with_data) |->
                         [code |-> with_data[k].code, data |-> with_data[k].data]]
               /\ pa_pc' = "parse"
               /\ m_pc' = "parse"
       ELSE /\ m_pc' = "exit"
            /\ UNCHANGED <<country_data, pa_pc>>
    /\ UNCHANGED <<entry, config_files, profile_name, country_list, valid_codes, invalid_codes,
                   m_i, fetch_results, failed_countries, delays>>
    /\ UNCHANGED <<field_paths, section_definitions, pa_i, results>>
    /\ UNCHANGED mOthers

\* DataFetcher.fetch_multiple_countries: one iteration of the loop
FetchMultiple ==
    /\ entry = "fetch_multiple_countries"
    /\ m_pc = "start"
    /\ m_i < Len(country_list)
    /\ \E response \in Responses :
          fetch_results' = SetResult(fetch_results, country_list[m_i + 1],
                                     fetch_country_data(country_list[m_i + 1], response))
    /\ delays' = IF DelayAfter(m_i, Len(country_list)) THEN delays + 1 ELSE delays
    /\ m_i' = m_i + 1
    /\ UNCHANGED <<entry, config_files, profile_name, country_list, valid_codes, invalid_codes,
                   failed_countries, m_pc>>
    /\ UNCHANGED paVars
    /\ UNCHANGED mOthers

\* DataFetcher.fetch_multiple_countries: return results
FetchMultipleReturn ==
    /\ entry = "fetch_multiple_countries"
    /\ m_pc = "start"
    /\ m_i = Len(country_list)
    /\ m_pc' = "returned"
    /\ UNCHANGED <<entry, config_files, profile_name, country_list, valid_codes, invalid_codes,
                   m_i, fetch_results, failed_countries, delays>>
    /\ UNCHANGED paVars
    /\ UNCHANGED mOthers

NextExport ==
    \/ ValidateCodes
    \/ LoadProfile
    \/ FetchCountry
    \/ CountFetches
    \/ ParseCountry
    \/ FetchMultiple
    \/ FetchMultipleReturn

SpecExport == InitExport /\ [][NextExport]_vars

\* -------------------------------------------------- claims on the export
Columns(row) == {row[i].col : i \in 1..Len(row)}
Cell(row, column) == (SelectSeq(row, LAMBDA c : c.col = column))[1].val
Resolve(json_data, path) == extract_text_value(get_nested_value(json_data, path))
DataOf(gec_code) == (SelectSeq(country_data, LAMBDA c : c.code = gec_code))[1].data
RaisesSomewhere(json_data) ==
    \E m \in 1..Len(section_definitions) :
        Resolve(json_data, section_definitions[m].path).k = "raise"

\* C6: projecting one record against N field mappings yields a row of
\* exactly N+2 columns, whatever the column names of the mappings.
C6_RowHasNPlus2Columns ==
    \A r \in 1..Len(results) :
        ~RaisesSomewhere(DataOf(results[r].code)) =>
            Len(results[r].row) = Len(section_definitions) + 2

\* C7: all rows of one run have the same column names: Country Code,
\* Country Name and one column per configured mapping, whether or not
\* parsing the record hit an error.
C7_RowsShareColumns ==
    \A r \in 1..Len(results) :
        Columns(results[r].row) =
            {COL_CODE, COL_NAME}
                \cup {section_definitions[m].col : m \in 1..Len(section_definitions)}

\* C8: when resolving one mapping of a record raises, only that column is
\* null; every other mapping's column still carries its resolved value.
C8_OnlyFailedColumnIsNull ==
    \A r \in 1..Len(results) :
        \A m \in 1..Len(section_definitions) :
            LET col == section_definitions[m].col
                res == Resolve(DataOf(results[r].code), section_definitions[m].path)
            IN (\A o \in 1..Len(section_definitions) :
                    o # m => section_definitions[o].col # col)
               => /\ col \in Columns(results[r].row)
                  /\ Cell(results[r].row, col) = IF res.k = "raise" THEN RNone ELSE res

\* ----------------------------------------------- claims on the analysis
\* the countries the simplified / detailed analyser counts as processed
SimplePaths(i) == process_single_country_simple(feed[i]).paths
DetailedPaths(i) == process_single_country_detailed(feed[i]).paths
SimpleProcessedIdx == {i \in 1..Len(feed) : SimplePaths(i) # <<>>}
DetailedProcessedIdx == {i \in 1..Len(feed) : DetailedPaths(i) # <<>>}
SimpleHolders(p) == {i \in SimpleProcessedIdx : InSeq(p, SimplePaths(i))}
DetailedHolders(p) == {i \in DetailedProcessedIdx : InSeq(p, DetailedPaths(i))}
KnownPaths == UNION {Range(SimplePaths(i)) : i \in 1..Len(feed)}

\* C1: in the detailed aggregator every known path p satisfies
\* missing(p) = (records processed so far) - present(p), also a path first
\* observed in a later record than the first.
C1_MissingIsProcessedMinusPresent ==
    \A i \in 1..Len(field_coverage) :
        field_coverage[i].missing = d_processed - field_coverage[i].present

\* C2: over N successfully processed records with path p in exactly k of
\* them, the detailed and the simplified report both give
\* coverage_pct(p) = round(100*k/N, 1).
C2_BothReportsRoundKOverN ==
    (d_pc = "done" /\ s_pc = "done") =>
        \A p \in KnownPaths :
            /\ \E j \in 1..Len(d_report) :
                  /\ d_report[j].path = p
                  /\ d_report[j].coverage_pct =
                        Round1(100 * Cardinality(DetailedHolders(p)),
                               Cardinality(DetailedProcessedIdx))
            /\ \E j \in 1..Len(s_report) :
                  /\ s_report[j].json_path = p
                  /\ s_report[j].coverage_pct =
                        Round1(100 * Cardinality(SimpleHolders(p)),
                               Cardinality(SimpleProcessedIdx))

\* C3: the tier of a detailed entry is determined by its reported, rounded
\* coverage_pct: universal iff >= 95.0, common iff 70.0 <= pct < 95.0,
\* partial iff < 70.0.
C3_TierFromReportedPct ==
    st_stats.tier # "unset" =>
        /\ st_stats.tier = "universal" <=> st_stats.coverage_pct >= 950
        /\ st_stats.tier = "common" <=>
               (st_stats.coverage_pct >= 700 /\ st_stats.coverage_pct < 950)
        /\ st_stats.tier = "partial" <=> st_stats.coverage_pct < 700

\* three records were processed and Geography.Area.text is in two of them
C4_Scenario ==
    /\ s_pc = "done"
    /\ s_processed = 3
    /\ Cardinality(SimpleHolders(P_GAT)) = 2

C4_OnceEach == \A i \in SimpleHolders(P_GAT) : CountIn(P_GAT, SimplePaths(i)) = 1

\* C4 as stated: with Geography.Area.text in 2 of 3 processed records the
\* simplified report lists it with coverage_pct = 66.7 and tier "common".
C4_TwoOfThreeIsCommon ==
    C4_Scenario =>
        \E j \in 1..Len(s_report) :
            /\ s_report[j].json_path = P_GAT
            /\ s_report[j].coverage_pct = 667
            /\ classify_field_tier(s_report[j].coverage_pct, 10) = "common"

\* C4 amended: with Geography.Area.text extracted once from each of exactly
\* 2 of 3 processed records the simplified report lists it with
\* coverage_pct = 66.7, which the tier thresholds classify as "partial".
C4_TwoOfThreeIsPartial ==
    (C4_Scenario /\ C4_OnceEach) =>
        /\ \E j \in 1..Len(s_report) : s_report[j].json_path = P_GAT
        /\ \A j \in 1..Len(s_report) :
              s_report[j].json_path = P_GAT =>
                  /\ s_report[j].coverage_pct = 667
                  /\ classify_field_tier(s_report[j].coverage_pct, 10) = "partial"

C4_Witness ==
    /\ C4_Scenario
    /\ C4_OnceEach
    /\ feed = <<FetchData(RecGAT), FetchData(RecPop), FetchData(RecGAT)>>
    /\ \E j \in 1..Len(s_report) :
          s_report[j].json_path = P_GAT /\ s_report[j].coverage_pct = 667

\* C5: every coverage_pct of either report lies in [0, 100].
C5_PctWithinRange ==
    /\ \A j \in 1..Len(d_report) :
          d_report[j].coverage_pct >= 0 /\ d_report[j].coverage_pct <= 1000
    /\ \A j \in 1..Len(s_report) :
          s_report[j].coverage_pct >= 0 /\ s_report[j].coverage_pct <= 1000

\* ------------------------------------------- claims on the extractors
\* the record under extraction is {key: value} with a traversed key
ExKey == ex_rec.d[1].k
ExValue == ex_rec.d[1].v
ExIsLeaf ==
    /\ ~StartsWithUnderscore(ExKey)
    /\ ExValue.t # "dict"
    /\ ~(ExValue.t = "list" /\ ExValue.l # <<>> /\ ExValue.l[1].t = "dict")

\* "meaningful" as the claim words it
C9_Meaningful(value) ==
    CASE value.t = "null" -> FALSE
      [] value.t = "str" -> \E i \in 1..Len(value.s) : value.s[i] # " "
      [] value.t = "list" -> value.l # <<>>
      [] OTHER -> TRUE

\* C9: both path extractors include a leaf path iff the leaf value is
\* meaningful: not null, not an empty or whitespace-only string, not an empty
\* list; numbers, booleans, non-blank strings and non-empty lists are included.
C9_LeafIffMeaningful ==
    ExIsLeaf =>
        /\ "detailed" \in ex_done => (InSeq(ExKey, ex_detailed) <=> C9_Meaningful(ExValue))
        /\ "simple" \in ex_done => (InSeq(ExKey, ex_simple) <=> C9_Meaningful(ExValue))

PrefixAll(key, paths) == [i \in 1..Len(paths) |-> key \o <<".">> \o paths[i]]
ExIsListOfMappings ==
    ExValue.t = "list" /\ ExValue.l # <<>> /\ ExValue.l[1].t = "dict"

\* C10: for a list value whose first element is a mapping, the paths
\* extracted under that key are exactly the paths of the first element; no
\* later element contributes a path.
C10_FirstElementOnly ==
    (ExIsListOfMappings /\ ~StartsWithUnderscore(ExKey)) =>
        /\ "detailed" \in ex_done =>
              ex_detailed = PrefixAll(ExKey, extract_field_paths(ExValue.l[1], <<>>))
        /\ "simple" \in ex_done =>
              ex_simple = PrefixAll(ExKey, extract_leaf_field_paths(ExValue.l[1], <<>>))

\* a list whose second element holds a key the first lacks has been extracted
C10_Witness ==
    /\ ex_done = {"detailed", "simple"}
    /\ ex_rec = Dict(<<Ent(K_k, List(<<Dict(<<Ent(<<"b">>, Str(<<"x">>))>>),
                                        Dict(<<Ent(<<"c">>, Str(<<"x">>))>>)>>))>>)
    /\ ex_simple = <<(<<"k", ".", "b">>)>>
    /\ ex_detailed = <<(<<"k", ".", "b">>)>>

\* a key the claims call metadata: it begins with "_"
IsMetadataKey(key) == key # <<>> /\ key[1] = "_"

\* the value without its metadata keys and everything beneath them
RECURSIVE WithoutMetadata(_)
RECURSIVE WithoutMetadataEntries(_)
WithoutMetadata(value) ==
    CASE value.t = "dict" -> Dict(WithoutMetadataEntries(value.d))
      [] value.t = "list" -> List([i \in 1..Len(value.l) |-> WithoutMetadata(value.l[i])])
      [] OTHER -> value
WithoutMetadataEntries(entries) ==
    IF entries = <<>> THEN <<>>
    ELSE IF IsMetadataKey(Head(entries).k) THEN WithoutMetadataEntries(Tail(entries))
    ELSE <<Ent(Head(entries).k, WithoutMetadata(Head(entries).v))>>
         \o WithoutMetadataEntries(Tail(entries))

HasMetadataSegment(path) ==
    \E i \in 1..Len(SplitDots(path, <<>>)) : IsMetadataKey(SplitDots(path, <<>>)[i])

\* C11: no path either extractor returns has a segment that comes from a key
\* beginning with "_", at any depth and inside the first element of a list;
\* the subtree beneath such a key contributes nothing, so the record without
\* its metadata keys yields the same paths.
C11_MetadataKeysContributeNothing ==
    /\ "detailed" \in ex_done =>
          /\ \A i \in 1..Len(ex_detailed) : ~HasMetadataSegment(ex_detailed[i])
          /\ ex_detailed = extract_field_paths(WithoutMetadata(ex_rec), <<>>)
    /\ "simple" \in ex_done =>
          /\ \A i \in 1..Len(ex_simple) : ~HasMetadataSegment(ex_simple[i])
          /\ ex_simple = extract_leaf_field_paths(WithoutMetadata(ex_rec), <<>>)

\* a metadata key beside an ordinary key inside the first element of a list,
\* under a second top-level key, has been extracted by both extractors
C11_Witness ==
    /\ ex_done = {"detailed", "simple"}
    /\ ex_rec = Dict(<<Ent(K_k, Dict(<<Ent(<<"b">>, Str(<<"x">>))>>)),
                       Ent(<<"c">>, List(<<Dict(<<Ent(<<"_", "m">>, Str(<<"x">>)),
                                                  Ent(<<"b">>, Num(7))>>)>>))>>)
    /\ ex_detailed = <<(<<"k", ".", "b">>), (<<"c", ".", "b">>)>>
    /\ ex_simple = ex_detailed

\* C12: for a single record neither extractor returns a path more than once.
C12_NoPathTwice ==
    /\ \A i, j \in 1..Len(ex_detailed) : ex_detailed[i] = ex_detailed[j] => i = j
    /\ \A i, j \in 1..Len(ex_simple) : ex_simple[i] = ex_simple[j] => i = j

\* the keys the simplified extractor traverses to each leaf it emits, one
\* sequence of keys per emitted path, in emission order
RECURSIVE LeafKeyTrails(_, _)
RECURSIVE LeafKeyTrailEntries(_, _, _)
LeafKeyTrails(data, trail) ==
    IF data.t # "dict" THEN <<>> ELSE LeafKeyTrailEntries(data.d, trail, 1)
LeafKeyTrailEntries(entries, trail, i) ==
    IF i > Len(entries) THEN <<>>
    ELSE LET key == entries[i].k
             value == entries[i].v
             found ==
                 IF IsMetadataKey(key) THEN <<>>
                 ELSE IF value.t = "dict" THEN LeafKeyTrails(value, Append(trail, key))
                 ELSE IF value.t = "list" /\ value.l # <<>> /\ value.l[1].t = "dict"
                      THEN LeafKeyTrails(value.l[1], Append(trail, key))
                 ELSE IF has_meaningful_value(value) THEN <<Append(trail, key)>> ELSE <<>>
         IN found \o LeafKeyTrailEntries(entries, trail, i + 1)

\* C13: every emitted path, split on ".", yields exactly the sequence of keys
\* traversed to its leaf, so no segment holds the separator; for any record,
\* also one with a key that contains ".".
C13_SplitGivesTraversedKeys ==
    "simple" \in ex_done =>
        /\ Len(ex_simple) = Len(LeafKeyTrails(ex_rec, <<>>))
        /\ \A i \in 1..Len(ex_simple) :
              SplitDots(ex_simple[i], <<>>) = LeafKeyTrails(ex_rec, <<>>)[i]

\* ----------------------------------------------- claims on the resolver
\* the records parse_multiple_countries has gone through so far
ParsedData == {country_data[i].data : i \in 1..pa_i}
MappedPaths == {section_definitions[m].path : m \in 1..Len(section_definitions)}

\* following the segments from data stops early: a segment is missing from
\* the current mapping, or the current value is not a mapping
RECURSIVE PathGap(_, _)
PathGap(data, segs) ==
    /\ segs # <<>>
    /\ \/ data.t # "dict"
       \/ \A i \in 1..Len(data.d) : data.d[i].k # Head(segs)
       \/ \E i \in 1..Len(data.d) :
             data.d[i].k = Head(segs) /\ PathGap(data.d[i].v, Tail(segs))

\* the value at the end of the path when there is no gap
RECURSIVE Terminal(_, _)
Terminal(data, segs) ==
    IF segs = <<>> THEN data
    ELSE Terminal((CHOOSE e \in Range(data.d) : e.k = Head(segs)).v, Tail(segs))

C14_AbsentOnGapNullOrEmpty ==
    \A data \in ParsedData : \A path \in MappedPaths :
        LET segs == SplitDots(path, <<>>)
        IN IF PathGap(data, segs) THEN Resolve(data, path) = RNone
           ELSE (Terminal(data, segs) \in {Null, List(<<>>)}) => Resolve(data, path) = RNone

C14_NeverRaises ==
    \A data \in ParsedData : \A path \in MappedPaths : Resolve(data, path) # RRaise

\* C14: resolving a dotted path gives absent when a segment is missing, when
\* a value before the last segment is not a mapping, and when the terminal
\* value is null or an empty list; resolving never raises.
C14_AbsentAndNeverRaises == C14_AbsentOnGapNullOrEmpty /\ C14_NeverRaises

\* the normalization the claims describe: one recursive rule per type
RECURSIVE Normalize(_)
Normalize(value) ==
    CASE value.t = "null" -> RNone
      [] value.t = "str" -> clean_text_html(value.s)
      [] value.t \in {"num", "bool"} -> RStr(PyStr(value))
      [] value.t = "dict" ->
            IF HasKey(value, <<"text">>) THEN Normalize(Get(value, <<"text">>))
            ELSE IF HasKey(value, <<"value">>) THEN Normalize(Get(value, <<"value">>))
            ELSE clean_text_html(PyStr(value))
      [] value.t = "list" ->
            IF value.l = <<>> THEN RNone
            ELSE JoinResults([i \in 1..Len(value.l) |-> Normalize(value.l[i])])

\* C15: for a terminal mapping the result is the normalization of its
\* "text" value if it has that key, else of its "value" value, else the
\* cleaned string form of the mapping; the inner value is normalized by the
\* same recursive rule (inner null absent, inner list joined, inner mapping
\* by its own keys).
C15_MappingByTextThenValue ==
    \A data \in ParsedData : \A path \in MappedPaths :
        get_nested_value(data, path).t = "dict" =>
            Resolve(data, path) = Normalize(get_nested_value(data, path))

\* C16: for a terminal non-empty list the result is the ", "-join, in list
\* order, of the elements each normalized by the resolver's own rules (a
\* mapping element by its text/value keys, a string element cleaned).
C16_ListJoinsNormalizedElements ==
    \A data \in ParsedData : \A path \in MappedPaths :
        LET value == get_nested_value(data, path)
        IN (value.t = "list" /\ value.l # <<>>) =>
               Resolve(data, path) =
                   JoinResults([i \in 1..Len(value.l) |-> Normalize(value.l[i])])

\* ------------------------------------------------ claims on the reports
\* the paths of the first n countries in the order the run met them
RECURSIVE SimpleSeen(_)
SimpleSeen(n) == IF n = 0 THEN <<>> ELSE SimpleSeen(n - 1) \o SimplePaths(n)
RECURSIVE DetailedSeen(_)
DetailedSeen(n) == IF n = 0 THEN <<>> ELSE DetailedSeen(n - 1) \o DetailedPaths(n)

\* the position at which a path was first discovered
FirstAt(p, seen) == CHOOSE k \in 1..Len(seen) : seen[k] = p /\ \A m \in 1..(k - 1) : seen[m] # p

Descending(report) ==
    \A i, j \in 1..Len(report) : i < j => report[i].coverage_pct >= report[j].coverage_pct

\* C17: both reports list the fields by descending coverage_pct, and two
\* fields of equal coverage_pct in the order in which their paths were first
\* discovered during the run.
C17_DescendingThenDiscoveryOrder ==
    /\ s_pc = "done" =>
          /\ Descending(s_report)
          /\ \A i, j \in 1..Len(s_report) :
                (i < j /\ s_report[i].coverage_pct = s_report[j].coverage_pct) =>
                    FirstAt(s_report[i].json_path, SimpleSeen(Len(feed)))
                        < FirstAt(s_report[j].json_path, SimpleSeen(Len(feed)))
    /\ d_pc = "done" =>
          /\ Descending(d_report)
          /\ \A i, j \in 1..Len(d_report) :
                (i < j /\ d_report[i].coverage_pct = d_report[j].coverage_pct) =>
                    FirstAt(d_report[i].path, DetailedSeen(Len(feed)))
                        < FirstAt(d_report[j].path, DetailedSeen(Len(feed)))

\* the simplified half of C17 on its own
C17_SimpleHalf ==
    s_pc = "done" =>
        /\ Descending(s_report)
        /\ \A i, j \in 1..Len(s_report) :
              (i < j /\ s_report[i].coverage_pct = s_report[j].coverage_pct) =>
                  FirstAt(s_report[i].json_path, SimpleSeen(Len(feed)))
                      < FirstAt(s_report[j].json_path, SimpleSeen(Len(feed)))

\* ------------------------------------------ claims on failed retrievals
\* the fetch failed: an error was returned, it raised, or no data came back
FetchFailed(outcome) == outcome.kind # "data" \/ outcome.data \in {Null, Dict(<<>>)}

\* C18: processing a country whose fetch failed (error, no data, exception)
\* leaves every field's present and missing tallies and processed_countries
\* unchanged and appends the country's code to failed_countries, in both
\* analysers.
C18_FailedFetchOnlyRecordsFailure ==
    [][/\ (d_i' = d_i + 1 /\ FetchFailed(feed[d_i + 1])) =>
              /\ field_coverage' = field_coverage
              /\ d_processed' = d_processed
              /\ d_failed' = Append(d_failed, CountryCodes[d_i + 1])
       /\ (s_i' = s_i + 1 /\ FetchFailed(feed[s_i + 1])) =>
              /\ field_presence' = field_presence
              /\ s_processed' = s_processed
              /\ s_failed' = Append(s_failed, CountryCodes[s_i + 1])]_vars

\* after a country with Geography.Area.text, a fetch error, an exception and
\* an empty response have each been processed by both analysers
C18_Witness ==
    /\ Len(feed) = 3
    /\ feed[1] = FetchData(RecGAT)
    /\ feed[2] \in {FetchError, FetchRaises, FetchData(Null)}
    /\ d_i = 2
    /\ s_i = 2
    /\ d_failed = <<"bb">>
    /\ s_failed = <<"bb">>
    /\ d_processed = 1
    /\ s_processed = 1
    /\ field_presence = <<[path |-> P_GAT, count |-> 1]>>
    /\ Len(field_coverage) = 1
    /\ field_coverage[1].present = 1
    /\ field_coverage[1].missing = 0

\* ------------------------------------------------ claims on the catalog
\* the paths the last simplified report gives a coverage of 95 or more
UniversalInReport ==
    {s_report[j].json_path : j \in {i \in 1..Len(s_report) : s_report[i].coverage_pct >= 950}}

\* C19: for a profile that names all_universal, get_profile_fields returns
\* exactly the paths whose coverage in the last simplified report is >= 95,
\* the catalog being the one generate_complete_fields made from that report.
C19_AllUniversalIsReportAtLeast95 ==
    (cf_pc = "asked" /\ InSeq(ALL_UNIVERSAL, profile)) =>
        Range(profile_fields) = UniversalInReport

\* -------------------------------------------- claims on the field names
\* the path ends with the segment "text"
EndsWithText(path) ==
    Len(path) >= 2 /\ SubSeq(path, Len(path) - 1, Len(path)) = <<".", "text">>

\* the final segment of the path once a trailing "text" segment is removed
FinalSegment(path) ==
    LET segs == SplitDots(Chars(IF EndsWithText(path) THEN SubSeq(path, 1, Len(path) - 2) ELSE path),
                          <<>>)
    IN segs[Len(segs)]

C20_TextSegmentRemoved ==
    (fn_done /\ EndsWithText(fn_path)) =>
        fn_name = generate_field_name(SubSeq(fn_path, 1, Len(fn_path) - 2))

C20_CanonicalCasing ==
    fn_done =>
        \A i \in 1..Len(abbreviations) :
            FindFirst(LowerText(FinalSegment(fn_path)), abbreviations[i].abbr) # 0 =>
                FindFirst(fn_name, abbreviations[i].full) # 0

\* C20: generate_field_name removes a trailing ".text" segment and, when the
\* final segment contains a known abbreviation in any letter case, returns a
\* label in which that abbreviation appears in its canonical casing.
C20_TextRemovedAndAbbreviationCanonical == C20_TextSegmentRemoved /\ C20_CanonicalCasing

\* ------------------------------------------------- claims on the fetcher
ExactlyOneNone(r) == (r.data = Null) # (r.error = RNone)

\* C21: every recorded return of fetch_country_data is a pair (data, error)
\* with exactly one of the two None: data and no error, or no data and an
\* error message
C21_ExactlyOneOfDataAndErrorIsNone ==
    \A k \in 1..Len(fetch_results) : ExactlyOneNone(fetch_results[k])

\* ------------------------------------------------ claims on the main run
HasData(fr, code) == \E j \in 1..Len(fr) : fr[j].code = code /\ fr[j].data # Null
HasEntry(fr, code) == \E j \in 1..Len(fr) : fr[j].code = code
ParseDone == m_pc = "parse" /\ pa_i = Len(country_data)

\* the fetch loop is left only after the last valid code, every valid code
\* then has a recorded result
C22_EveryValidCodeFetched ==
    [][(m_pc = "fetch" /\ m_pc' # "fetch") =>
          /\ m_i = Len(valid_codes)
          /\ \A k \in 1..Len(valid_codes) : HasEntry(fetch_results, valid_codes[k])]_vars

\* data a fetch returned is not lost to a later step of the run
C22_FetchedDataKept ==
    [][entry = "main" =>
          \A c \in Range(valid_codes) :
              HasData(fetch_results, c) => HasData(fetch_results', c)]_vars

\* when parsing is over, every recorded result with data has a row
C22_RecordedDataGetsRow ==
    [](ParseDone =>
          \A c \in Range(valid_codes) :
              HasData(fetch_results, c) => \E r \in 1..Len(results) : results[r].code = c)

\* C22: in the export run a retrieval failure (an error result or an
\* exception) for one country never stops the batch: every remaining valid
\* code is still fetched, and every country whose fetch returned data gets a
\* row in the parsed output.
C22_FailureNeverStopsBatch ==
    C22_EveryValidCodeFetched /\ C22_FetchedDataKept /\ C22_RecordedDataGetsRow

\* ------------------------------------------------- claims on the rows
ConfiguredNameOrCode(gec_code) ==
    IF get_country_name(gec_code) = RNone THEN RStr(<<Upper(gec_code)>>)
    ELSE get_country_name(gec_code)

\* C23: every row parse_country_data produces has 'Country Code' as its
\* first column, holding the upper-cased code, and 'Country Name' as its
\* second, holding the configured name or else the upper-cased code,
\* whatever mappings are configured.
C23_CodeThenNameLeadEveryRow ==
    \A r \in 1..Len(results) :
        /\ Len(results[r].row) >= 2
        /\ results[r].row[1] = [col |-> COL_CODE, val |-> RStr(<<Upper(results[r].code)>>)]
        /\ results[r].row[2] = [col |-> COL_NAME, val |-> ConfiguredNameOrCode(results[r].code)]

\* ------------------------------------------ claims on the configuration
ConfigInOrder == config_files = [countries |-> "ok", fields |-> "ok", profiles |-> "ok"]
NothingProcessed == m_i = 0 /\ fetch_results = <<>> /\ country_data = <<>> /\ results = <<>>

\* C24: a missing or malformed configuration file (countries, fields or
\* field profiles) is fatal: the run aborts before any country is fetched
\* or parsed.
C24_BadConfigurationStopsBeforeProcessing ==
    (entry = "main" /\ ~ConfigInOrder) => NothingProcessed

\* ----------------------------------------------- claims on the ordering
HasRow(code) == \E r \in 1..Len(results) : results[r].code = code

\* C25: the export run handles records strictly one at a time: once the
\* retrieval of a later country has taken place, every earlier country whose
\* fetch returned data has its parsed row.
C25_ParsedBeforeNextFetch ==
    entry = "main" =>
        \A k \in 1..Len(valid_codes) :
            (k < m_i /\ HasData(fetch_results, valid_codes[k])) => HasRow(valid_codes[k])

\* ------------------------------------------------- claims on the delays
\* the codes the running loop goes through
LoopCodes == IF entry = "main" THEN valid_codes ELSE country_list

\* C26: when n >= 1 codes are fetched, by fetch_multiple_countries or by
\* main's loop, a delay follows each fetch that another fetch follows, a
\* failed one included, and none follows the last: m fetches into the loop
\* there were m delays, and n-1 once all n are done.
C26_OneDelayBetweenFetches ==
    LET n == Len(LoopCodes)
    IN /\ m_i < n => delays = m_i
       /\ (m_i = n /\ n >= 1) => delays = n - 1

C26_Witness ==
    /\ entry = "main"
    /\ Len(valid_codes) = MaxRequested
    /\ m_i = Len(valid_codes)
    /\ valid_codes[1] \in Range(failed_countries)
    /\ delays = MaxRequested - 1

\* ----------------------------------------------- claims on the round trip
\* C27: every path the simplified extractor returns for a record resolves
\* on that record to a value, not to absent, also a path found inside the
\* first element of a list of mappings.
C27_ExtractedPathsResolve ==
    "simple" \in ex_done =>
        \A i \in 1..Len(ex_simple) : Resolve(ex_rec, ex_simple[i]).k = "str"

\* ------------------------------------------------ claims on the counters
DetailedCounted(k) == CountsAsProcessed(process_single_country_detailed(feed[k]))
SimpleCounted(k) == CountsAsProcessed(process_single_country_simple(feed[k]))
Once(failed) == Cardinality(Range(failed)) = Len(failed)

\* C28: after each iteration of analyze_all_countries, in both analysers,
\* processed_countries + len(failed_countries) is the number of countries
\* iterated so far, and total_countries at the end; each country iterated is
\* counted on one side only.
C28_ProcessedPlusFailedIsIterated ==
    /\ d_processed + Len(d_failed) = d_i
    /\ s_processed + Len(s_failed) = s_i
    /\ d_pc = "done" => d_processed + Len(d_failed) = Len(feed)
    /\ s_pc = "done" => s_processed + Len(s_failed) = Len(feed)
    /\ d_processed = Cardinality({k \in 1..d_i : DetailedCounted(k)})
    /\ s_processed = Cardinality({k \in 1..s_i : SimpleCounted(k)})
    /\ Once(d_failed) /\ Range(d_failed) = {CountryCodes[k] : k \in {j \in 1..d_i : ~DetailedCounted(j)}}
    /\ Once(s_failed) /\ Range(s_failed) = {CountryCodes[k] : k \in {j \in 1..s_i : ~SimpleCounted(j)}}

C28_Witness ==
    /\ d_pc = "done" /\ s_pc = "done"
    /\ Len(feed) = MaxCountries
    /\ d_processed >= 1 /\ Len(d_failed) >= 1
    /\ s_processed >= 1 /\ Len(s_failed) >= 1

\* C29: a country is appended to failed_countries only if its retrieval
\* failed: every country whose fetch returned a record is counted in
\* processed_countries, also when the record yields no field paths.
C29_FailedOnlyIfRetrievalFailed ==
    /\ \A k \in 1..d_i : CountryCodes[k] \in Range(d_failed) => FetchFailed(feed[k])
    /\ \A k \in 1..s_i : CountryCodes[k] \in Range(s_failed) => FetchFailed(feed[k])

\* ------------------------------------------------ claims on the row count
\* C30: the export has as many rows as requested valid codes whose fetch
\* returned data, and that is the count of successful fetches reported
\* against len(valid_codes), for every list of requested codes, a list that
\* repeats a code included: every fetch of the loop that returns data adds
\* one to the count, no other fetch changes it, and the rows are as many.
C30_RowsAreSuccessfulFetches ==
    /\ [][(entry = "main" /\ m_i' = m_i + 1) =>
             successful_fetches' =
                 successful_fetches
                     + (IF HasData(fetch_results', valid_codes[m_i + 1]) THEN 1 ELSE 0)]_vars
    /\ [](ParseDone =>
             /\ Len(results) = successful_fetches
             /\ successful_fetches <= Len(valid_codes))

====
